---------------------------- MODULE Spec2Model ----------------------------
(***************************************************************************)
(* A model of the tpc-rs coordinate-transform engine (src/src/coords.cpp)  *)
(* and of the helix parametrisation check (src/src/particles/StHelix.hh).  *)
(*                                                                         *)
(* Real numbers are exact: a number is <<a, b, d>> and stands for          *)
(* (a + b*sqrt(3)) / d with d > 0 and gcd(a, b, d) = 1.  The sqrt(3) part  *)
(* is what the sines and cosines of the sectors' 30-degree steps need.     *)
(* Floating-point rounding is not modelled.                                *)
(***************************************************************************)
EXTENDS Integers, Sequences, FiniteSets, TLC

VARIABLES
  Nrows,      \* static int Nrows of YToRow, shared by every CoordTransform
  Radii,      \* static double* Radii of YToRow: [st, cells]
  allocs,     \* new[] executed since Nrows last changed value
  frees,      \* delete[] executed since Nrows last changed value
  hazards,    \* undefined behaviour met so far (set of names)
  pc,         \* per thread: position inside YToRow
  tcfg,       \* per thread: configuration of the calling CoordTransform
  ty,         \* per thread: argument y
  ti,         \* per thread: loop variable i
  tret,       \* per thread: row returned by the last finished call
  tcalls,     \* per thread: calls started so far
  last,       \* the last completed call: operation, arguments, results
  prev,       \* the completed call before it
  inst,       \* cfg_ of the CoordTransform whose conversions are called
  junk,       \* what a read past the end of a calibration table returns
  helix,      \* the fields of one StHelix
  cal,        \* the alignment calibration the transform cache is built from
  csector,    \* SetTpcRotations: loop variable sector (25: loop left)
  ck,         \* SetTpcRotations: loop variable k
  tpc2global, \* tpc2global_
  sector_rotations  \* sector_rotations_: index |-> transform, once stored

rowVars  == <<Nrows, Radii, allocs, frees, hazards>>
thrVars  == <<pc, tcfg, ty, ti, tret, tcalls>>
logVars  == <<last, prev>>
cacheVars == <<cal, csector, ck, tpc2global, sector_rotations>>
cnvVars  == <<inst, junk, helix, cacheVars>>

---------------------------------------------------------------------------
(* Exact arithmetic in Q(sqrt 3).                                          *)

Abs(n) == IF n < 0 THEN -n ELSE n

RECURSIVE GCD(_, _)
GCD(m, n) == IF n = 0 THEN m ELSE GCD(n, m % n)

Norm(a, b, d) ==
  LET s == IF d < 0 THEN -1 ELSE 1
      g == GCD(GCD(Abs(a), Abs(b)), Abs(d))
  IN  <<(s * a) \div g, (s * b) \div g, (s * d) \div g>>

Rat(n, d) == Norm(n, 0, d)
Int2N(n)  == <<n, 0, 1>>
Zero      == <<0, 0, 1>>
One       == <<1, 0, 1>>

NNeg(x) == <<-x[1], -x[2], x[3]>>

NAdd(x, y) ==
  LET g == GCD(x[3], y[3])
      p == y[3] \div g
      q == x[3] \div g
  IN  Norm(x[1] * p + y[1] * q, x[2] * p + y[2] * q, x[3] * p)

NSub(x, y) == NAdd(x, NNeg(y))

NMul(x, y) ==
  LET g1 == GCD(GCD(Abs(x[1]), Abs(x[2])), y[3])
      g2 == GCD(GCD(Abs(y[1]), Abs(y[2])), x[3])
      a1 == x[1] \div g1
      b1 == x[2] \div g1
      a2 == y[1] \div g2
      b2 == y[2] \div g2
  IN  Norm(a1 * a2 + 3 * b1 * b2, a1 * b2 + b1 * a2,
           (x[3] \div g2) * (y[3] \div g1))

NInv(x) ==
  IF x[2] = 0 THEN Norm(x[3], 0, x[1])
  ELSE Norm(x[3] * x[1], -(x[3] * x[2]), x[1] * x[1] - 3 * x[2] * x[2])

NDiv(x, y) == NMul(x, NInv(y))

SignInt(n) == IF n > 0 THEN 1 ELSE IF n < 0 THEN -1 ELSE 0

NSign(x) ==
  LET a == x[1]
      b == x[2]
  IN  IF b = 0 THEN SignInt(a)
      ELSE IF a = 0 THEN SignInt(b)
      ELSE IF SignInt(a) = SignInt(b) THEN SignInt(a)
      ELSE SignInt(a) * SignInt(a * a - 3 * b * b)

NLt(x, y) == NSign(NSub(x, y)) < 0
NLe(x, y) == NSign(NSub(x, y)) <= 0
NAbs(x)   == IF NSign(x) < 0 THEN NNeg(x) ELSE x

---------------------------------------------------------------------------
(* The calibration snapshots (tpcrs::Configurator) the model draws from.   *)
(* A and B have the same row count and different row radii; C has another  *)
(* row count.  Row radii increase strictly with the row number.            *)

Cfgs == {"A", "B", "C"}

padRows(c) == IF c = "C" THEN 2 ELSE 3

innerPadRows(c) == IF c = "B" THEN 2 ELSE 1

RowRadius(c) ==
  CASE c = "A" -> <<Int2N(1), Int2N(2), Int2N(3)>>
    [] c = "B" -> <<Int2N(1), Int2N(2), Int2N(4)>>
    [] c = "C" -> <<Int2N(1), Int2N(2)>>

\* tpcrs::RadialDistanceAtRow(row, cfg): the nominal radius of a row.
RadialDistanceAtRow(i, c) == RowRadius(c)[i]

InRange(row, c) == row \in 1..padRows(c)

PadsInRow(c) ==
  CASE c = "A" -> <<4, 6, 8>>
    [] c = "B" -> <<5, 7, 9>>
    [] c = "C" -> <<4, 6>>

\* tpcrs::NumberOfPads(row, cfg): the pad count of a row; for a row that is
\* not configured the read leaves the table.
NumberOfPads(row, c) == IF InRange(row, c) THEN PadsInRow(c)[row] ELSE junk

\* tpcrs::IsInner(row, cfg).
IsInner(row, c) == row <= innerPadRows(c)

innerSectorPadPitch(c) == IF c = "B" THEN Rat(1, 4) ELSE Rat(1, 2)
outerSectorPadPitch(c) == IF c = "B" THEN Rat(3, 4) ELSE Rat(2, 3)

\* cfg_.S<tpcPadrowT0>(sector-1).T0[row-1], in microseconds.
PadrowT0(sector, row, c) ==
  IF InRange(row, c) THEN Rat(sector + 2 * row, 8) ELSE <<junk, 0, 1>>

\* cfg_.S<tpcSectorT0offset>().t0[l-1], l in 1..48.
SectorT0offset(l, c) == Rat(l - 20, 4)

trgTimeOffset(c) == IF c = "A" THEN <<2, 0, 1>> ELSE <<3, 0, 1>>
tZero(c)         == IF c = "C" THEN Rat(1, 2) ELSE Rat(-1, 4)
frequency(c)     == IF c = "A" THEN <<8000000, 0, 1>> ELSE <<10000000, 0, 1>>
z_inner_offset(c) == IF c = "A" THEN Rat(1, 4) ELSE Rat(1, 5)
z_outer_offset(c) == IF c = "A" THEN Rat(-1, 2) ELSE Rat(3, 10)

\* tpcrs::DriftVelocity(sector, cfg), in cm/s: positive, per sector.
DriftVelocity(sector, c) == <<5000000 + 100000 * sector, 0, 1>>

---------------------------------------------------------------------------
(* CoordTransform::YToRow.                                                 *)

Uninit == <<0, 0, 0>>          \* an array cell never written
NullPtr == [st |-> "null", cells |-> <<>>]

Two   == Int2N(2)
Three == Int2N(3)

\* The value the loop body stores in Radii[i-1], i in 1..Nrows+1.
BoundaryAt(c, n, i) ==
  IF i = 1
  THEN NDiv(NSub(NMul(Three, RadialDistanceAtRow(i, c)),
                 RadialDistanceAtRow(i + 1, c)), Two)
  ELSE IF i = n + 1
  THEN NDiv(NSub(NMul(Three, RadialDistanceAtRow(i - 1, c)),
                 RadialDistanceAtRow(i - 2, c)), Two)
  ELSE NDiv(NAdd(RadialDistanceAtRow(i - 1, c),
                 RadialDistanceAtRow(i, c)), Two)

\* The whole rebuild: new double[Nrows + 1] filled by the loop.
BuildTable(c) ==
  [st |-> "live",
   cells |-> [i \in 1..(padRows(c) + 1) |-> BoundaryAt(c, padRows(c), i)]]

\* std::lower_bound over cells[first+1 .. first+count] (0-based result).
RECURSIVE LowerBound(_, _, _, _)
LowerBound(cells, first, count, y) ==
  IF count <= 0 THEN first
  ELSE LET step == count \div 2
           it   == first + step
       IN  IF NLt(cells[it + 1], y)
           THEN LowerBound(cells, it + 1, count - (step + 1), y)
           ELSE LowerBound(cells, first, step, y)

\* RowSearch with the two arms of the conditional exchanged.
RowSearch_ArmsSwapped(cells, n, y) ==
  LET j   == LowerBound(cells, 0, n + 1, y)
      row == IF j # n + 1 /\ cells[j + 1] = y THEN j ELSE j + 1
  IN  IF row <= 0 THEN 1 ELSE IF row > n THEN n ELSE row

\* Lines 180-186: the search and the clamp.
RowSearch(cells, n, y) ==
  LET j   == LowerBound(cells, 0, n + 1, y)
      row == IF j # n + 1 /\ cells[j + 1] = y THEN j + 1 ELSE j
  IN  IF row <= 0 THEN 1 ELSE IF row > n THEN n ELSE row

\* YToRowCall that builds the table only when there is none.
YToRowCall_BuildOnce(n, r, c, y) ==
  LET rebuild == r.st = "null"
      n1 == IF rebuild THEN padRows(c) ELSE n
      r1 == IF rebuild THEN BuildTable(c) ELSE r
  IN  [Nrows |-> n1, Radii |-> r1, rebuilt |-> rebuild,
       freed |-> rebuild /\ r.st # "null",
       row |-> RowSearch(r1.cells, n1, y)]

\* One complete call, run without interference: the statics after it, the
\* row returned and whether the table was rebuilt.
YToRowCall(n, r, c, y) ==
  LET rebuild == n # padRows(c)
      n1 == IF rebuild THEN padRows(c) ELSE n
      r1 == IF rebuild THEN BuildTable(c) ELSE r
  IN  [Nrows |-> n1, Radii |-> r1, rebuilt |-> rebuild,
       freed |-> rebuild /\ r.st # "null",
       row |-> RowSearch(r1.cells, n1, y)]

---------------------------------------------------------------------------
(* StHelix::bad and StHelix::valid.  A double is a number or, with         *)
(* denominator 0, one of the values that are not finite.                   *)

NaN    == <<0, 0, 0>>
PosInf == <<1, 0, 0>>
NegInf == <<-1, 0, 0>>

\* ::finite(x)
finite(x) == x[3] # 0

\* M_PI / 2, to six decimals.
HalfPi == Rat(1570796, 1000000)

NoHelix == [mDipAngle |-> Zero, mCurvature |-> Zero,
            mOrigin |-> <<Zero, Zero, Zero>>, mH |-> 1]

\* StThreeVector<double>::bad(world): 0 for a valid vector, else the code of
\* the first component that is not finite (10 + i) or beyond the world
\* (20 + i), i = 0, 1, 2.
RECURSIVE OriginBadFrom(_, _, _)
OriginBadFrom(o, world, i) ==
  IF i > 3 THEN 0
  ELSE IF ~finite(o[i]) THEN 10 + (i - 1)
  ELSE IF NLt(world, NAbs(o[i])) THEN 20 + (i - 1)
  ELSE OriginBadFrom(o, world, i + 1)

OriginBad(o, world) == OriginBadFrom(o, world, 1)

\* StHelix::bad without the test of the band around pi/2.
bad_NoBand(h, WorldSize) ==
  IF ~finite(h.mDipAngle) THEN 11
  ELSE IF ~finite(h.mCurvature) THEN 12
  ELSE IF OriginBad(h.mOrigin, WorldSize) # 0
       THEN 3 + OriginBad(h.mOrigin, WorldSize) * 100
  ELSE IF NLt(Rat(158, 100), NAbs(h.mDipAngle)) THEN 21
  ELSE IF NLt(WorldSize, NAbs(h.mCurvature)) THEN 22
  ELSE IF NSign(h.mCurvature) < 0 THEN 32
  ELSE IF Abs(h.mH) # 1 THEN 24
  ELSE 0

bad(h, WorldSize) ==
  IF ~finite(h.mDipAngle) THEN 11
  ELSE IF ~finite(h.mCurvature) THEN 12
  ELSE IF OriginBad(h.mOrigin, WorldSize) # 0
       THEN 3 + OriginBad(h.mOrigin, WorldSize) * 100
  ELSE IF NLt(Rat(158, 100), NAbs(h.mDipAngle)) THEN 21
  ELSE IF NLt(NAbs(NSub(NAbs(h.mDipAngle), HalfPi)), NInv(WorldSize)) THEN 31
  ELSE IF NLt(WorldSize, NAbs(h.mCurvature)) THEN 22
  ELSE IF NSign(h.mCurvature) < 0 THEN 32
  ELSE IF Abs(h.mH) # 1 THEN 24
  ELSE 0

valid(h, world) == bad(h, world) = 0

---------------------------------------------------------------------------
(* Rigid transforms (TGeoHMatrix): rot is the rotation matrix, row-major,  *)
(* tr the translation.                                                     *)

Sum3(a, b, c) == NAdd(NAdd(a, b), c)

\* Row r of A times column c of B.
Entry(A, B, r, c) ==
  Sum3(NMul(A[3 * r - 2], B[c]), NMul(A[3 * r - 1], B[c + 3]),
       NMul(A[3 * r], B[c + 6]))

MatMul(A, B) ==
  <<Entry(A, B, 1, 1), Entry(A, B, 1, 2), Entry(A, B, 1, 3),
    Entry(A, B, 2, 1), Entry(A, B, 2, 2), Entry(A, B, 2, 3),
    Entry(A, B, 3, 1), Entry(A, B, 3, 2), Entry(A, B, 3, 3)>>

RowTimes(A, v, r) ==
  Sum3(NMul(A[3 * r - 2], v[1]), NMul(A[3 * r - 1], v[2]),
       NMul(A[3 * r], v[3]))

MatVec(A, v) == <<RowTimes(A, v, 1), RowTimes(A, v, 2), RowTimes(A, v, 3)>>

VAdd(u, v) == <<NAdd(u[1], v[1]), NAdd(u[2], v[2]), NAdd(u[3], v[3])>>
VScale(k, v) == <<NMul(k, v[1]), NMul(k, v[2]), NMul(k, v[3])>>
Dot(u, v) == Sum3(NMul(u[1], v[1]), NMul(u[2], v[2]), NMul(u[3], v[3]))
Cross(u, v) ==
  <<NSub(NMul(u[2], v[3]), NMul(v[2], u[3])),
    NSub(NMul(u[3], v[1]), NMul(v[3], u[1])),
    NSub(NMul(u[1], v[2]), NMul(v[1], u[2]))>>

\* The square root of a number that is a square of 0, 1, 2 or 3.
NSqrt(x) == CHOOSE r \in {Zero, One, Two, Three} : NMul(r, r) = x

Mag(v) == NSqrt(Dot(v, v))

IdentityRot == <<One, Zero, Zero, Zero, One, Zero, Zero, Zero, One>>
NoShift     == <<Zero, Zero, Zero>>
IdentityT   == [rot |-> IdentityRot, tr |-> NoShift]

\* TGeoHMatrix operator*.
TMul(X, Y) ==
  [rot |-> MatMul(X.rot, Y.rot), tr |-> VAdd(X.tr, MatVec(X.rot, Y.tr))]

\* Cosine and sine of a multiple of 30 degrees.
CosDeg(a) ==
  LET m == ((a % 360) + 360) % 360
  IN  CASE m = 0 -> One
        [] m \in {30, 330}  -> <<0, 1, 2>>
        [] m \in {60, 300}  -> Rat(1, 2)
        [] m \in {90, 270}  -> Zero
        [] m \in {120, 240} -> Rat(-1, 2)
        [] m \in {150, 210} -> <<0, -1, 2>>
        [] m = 180 -> NNeg(One)

SinDeg(a) == CosDeg(a - 90)

RotXMat(a) == <<One, Zero, Zero,
                Zero, CosDeg(a), NNeg(SinDeg(a)),
                Zero, SinDeg(a), CosDeg(a)>>
RotYMat(a) == <<CosDeg(a), Zero, SinDeg(a),
                Zero, One, Zero,
                NNeg(SinDeg(a)), Zero, CosDeg(a)>>
RotZMat(a) == <<CosDeg(a), NNeg(SinDeg(a)), Zero,
                SinDeg(a), CosDeg(a), Zero,
                Zero, Zero, One>>

\* TGeoHMatrix::RotateX/Y/Z(angle in degrees): the rotation about the axis
\* applied on the left, to the rotation and to the translation.
RotateX(M, a) == [rot |-> MatMul(RotXMat(a), M.rot), tr |-> MatVec(RotXMat(a), M.tr)]
RotateY(M, a) == [rot |-> MatMul(RotYMat(a), M.rot), tr |-> MatVec(RotYMat(a), M.tr)]
RotateZ(M, a) == [rot |-> MatMul(RotZMat(a), M.rot), tr |-> MatVec(RotZMat(a), M.tr)]

\* TGeoRotation::SetAngles(theta1, phi1, theta2, phi2, theta3, phi3): the
\* columns are the directions of the three axes.
SetAngles(t1, p1, t2, p2, t3, p3) ==
  <<NMul(CosDeg(p1), SinDeg(t1)), NMul(CosDeg(p2), SinDeg(t2)), NMul(CosDeg(p3), SinDeg(t3)),
    NMul(SinDeg(p1), SinDeg(t1)), NMul(SinDeg(p2), SinDeg(t2)), NMul(SinDeg(p3), SinDeg(t3)),
    CosDeg(t1), CosDeg(t2), CosDeg(t3)>>

---------------------------------------------------------------------------
(* The alignment calibrations the model draws from.  Angles are given in   *)
(* units of pi/6 radians, so that "* 180.0 / M_PI" yields 30 degrees each. *)

Cals == {"ideal", "aligned", "scaled"}

PhiXZ_geom(q) == IF q = "aligned" THEN 3 ELSE 0
PhiYZ_geom(q) == IF q = "aligned" THEN -1 ELSE 0
LocalShift(q) ==
  IF q = "aligned" THEN <<Int2N(1), Int2N(-2), Rat(1, 2)>> ELSE NoShift
outerSectorPadPlaneZ(q) == Int2N(20)
outerSectorGatingGridPadSep(q) == IF q = "ideal" THEN Zero ELSE Rat(3, 2)

\* cfg_.C<StTpcSuperSectorPosition>().GetMatrix(i)
SuperSectorPosition(q, i) ==
  IF q = "aligned"
  THEN [rot |-> RotZMat(30 * (i % 3)), tr |-> <<Rat(i % 4, 10), Zero, Rat(-1, 10)>>]
  ELSE IdentityT

\* cfg_.C<StTpcOuterSectorPosition>().GetMatrix(i); "scaled" is not rigid:
\* its columns have length 2.
OuterSectorPosition(q, i) ==
  CASE q = "aligned" ->
         [rot |-> RotZMat(90 * (i % 2)), tr |-> <<Zero, Rat(1, 5), Zero>>]
    [] q = "scaled" ->
         [rot |-> <<Two, Zero, Zero, Zero, Two, Zero, Zero, Zero, Two>>,
          tr |-> <<Int2N(1), Zero, Zero>>]
    [] OTHER -> IdentityT

---------------------------------------------------------------------------
(* CoordTransform::SetTpcRotations.                                        *)

kUndefSector    == -1
kSupS2Tpc       == 0
kSupS2Glob      == 1
kSubSInner2SupS == 2
kSubSOuter2SupS == 3
kSubSInner2Tpc  == 4
kSubSOuter2Tpc  == 5
kSubSInner2Glob == 6
kSubSOuter2Glob == 7
kPadInner2SupS  == 8
kPadOuter2SupS  == 9
kPadInner2Tpc   == 10
kPadOuter2Tpc   == 11
kPadInner2Glob  == 12
kPadOuter2Glob  == 13
kTotalTpcSectorRotaions == 14

LastSector == 24

\* The place of (sector, k) in sector_rotations_.
SlotOf(sector, k) == kTotalTpcSectorRotaions * (sector - 1) + k

\* The accessors SupS2Tpc(sector), SubSInner2SupS(sector), ...: the stored
\* entry, which is the identity until it is stored.
Stored(sector, k) ==
  IF SlotOf(sector, k) \in DOMAIN sector_rotations
  THEN sector_rotations[SlotOf(sector, k)] ELSE IdentityT

flip_matrix ==
  [rot |-> <<Zero, One, Zero, One, Zero, Zero, Zero, Zero, NNeg(One)>>,
   tr |-> NoShift]

\* Sector 0: the TPC reference system.
TpcRefSys ==
  LET phi   == 0
      theta == 30 * PhiXZ_geom(cal)
      psi   == 30 * PhiYZ_geom(cal)
      rotA  == RotateZ(RotateY(RotateX(IdentityT, -psi), -theta), -phi)
  IN  [rot |-> rotA.rot, tr |-> LocalShift(cal)]

\* case kSupS2Tpc.
SupS2TpcMatrix(sector) ==
  LET far   == sector > 12
      iphi  == IF far THEN (90 + 30 * (sector - 12)) % 360
                      ELSE (360 + 90 - 30 * sector) % 360
      dist  == NSub(outerSectorPadPlaneZ(cal), outerSectorGatingGridPadSep(cal))
      drift_dist_z == IF far THEN NNeg(dist) ELSE dist
      rotm0 == IF far THEN SetAngles(90, 0, 90, -90, 180, 0) ELSE IdentityRot
      rotm  == MatMul(RotZMat(iphi), rotm0)
      rotA  == [rot |-> rotm, tr |-> <<Zero, Zero, drift_dist_z>>]
  IN  TMul(rotA, SuperSectorPosition(cal, sector - 1))

\* StageMatrix with SubSOuter2Glob formed from the inner sub-sector.
StageMatrix_OuterFromInner(sector, k) ==
  CASE k = kSupS2Tpc       -> SupS2TpcMatrix(sector)
    [] k = kSupS2Glob      -> TMul(tpc2global, Stored(sector, kSupS2Tpc))
    [] k = kSubSInner2SupS -> flip_matrix
    [] k = kSubSOuter2SupS -> TMul(flip_matrix, OuterSectorPosition(cal, sector - 1))
    [] k = kSubSInner2Tpc  -> TMul(Stored(sector, kSupS2Tpc), Stored(sector, kSubSInner2SupS))
    [] k = kSubSOuter2Tpc  -> TMul(Stored(sector, kSupS2Tpc), Stored(sector, kSubSOuter2SupS))
    [] k = kSubSInner2Glob -> TMul(tpc2global, Stored(sector, kSubSInner2Tpc))
    [] k = kSubSOuter2Glob -> TMul(tpc2global, Stored(sector, kSubSInner2Tpc))
    [] k = kPadInner2SupS  -> Stored(sector, kSubSInner2SupS)
    [] k = kPadOuter2SupS  -> Stored(sector, kSubSOuter2SupS)
    [] k = kPadInner2Tpc   -> TMul(Stored(sector, kSupS2Tpc), Stored(sector, kPadInner2SupS))
    [] k = kPadOuter2Tpc   -> TMul(Stored(sector, kSupS2Tpc), Stored(sector, kPadOuter2SupS))
    [] k = kPadInner2Glob  -> TMul(tpc2global, Stored(sector, kPadInner2Tpc))
    [] k = kPadOuter2Glob  -> TMul(tpc2global, Stored(sector, kPadOuter2Tpc))

Stages == kSupS2Tpc..(kTotalTpcSectorRotaions - 1)

\* The switch with a stage read ahead of its turn: SubSInner->Tpc formed
\* from PadInner->SupS.
StageMatrixOn_ReadsAhead(sector, k, G, S) ==
  CASE k = kSupS2Tpc       -> SupS2TpcMatrix(sector)
    [] k = kSupS2Glob      -> TMul(G, S[kSupS2Tpc])
    [] k = kSubSInner2SupS -> flip_matrix
    [] k = kSubSOuter2SupS -> TMul(flip_matrix, OuterSectorPosition(cal, sector - 1))
    [] k = kSubSInner2Tpc  -> TMul(S[kSupS2Tpc], S[kPadInner2SupS])
    [] k = kSubSOuter2Tpc  -> TMul(S[kSupS2Tpc], S[kSubSOuter2SupS])
    [] k = kSubSInner2Glob -> TMul(G, S[kSubSInner2Tpc])
    [] k = kSubSOuter2Glob -> TMul(G, S[kSubSOuter2Tpc])
    [] k = kPadInner2SupS  -> S[kSubSInner2SupS]
    [] k = kPadOuter2SupS  -> S[kSubSOuter2SupS]
    [] k = kPadInner2Tpc   -> TMul(S[kSupS2Tpc], S[kPadInner2SupS])
    [] k = kPadOuter2Tpc   -> TMul(S[kSupS2Tpc], S[kPadOuter2SupS])
    [] k = kPadInner2Glob  -> TMul(G, S[kPadInner2Tpc])
    [] k = kPadOuter2Glob  -> TMul(G, S[kPadOuter2Tpc])

\* The switch: rotA of stage k of a sector in 1..24, before Normalize, G
\* being tpc2global_ and S[r] what the accessor of stage r returns.
StageMatrixOn(sector, k, G, S) ==
  CASE k = kSupS2Tpc       -> SupS2TpcMatrix(sector)
    [] k = kSupS2Glob      -> TMul(G, S[kSupS2Tpc])
    [] k = kSubSInner2SupS -> flip_matrix
    [] k = kSubSOuter2SupS -> TMul(flip_matrix, OuterSectorPosition(cal, sector - 1))
    [] k = kSubSInner2Tpc  -> TMul(S[kSupS2Tpc], S[kSubSInner2SupS])
    [] k = kSubSOuter2Tpc  -> TMul(S[kSupS2Tpc], S[kSubSOuter2SupS])
    [] k = kSubSInner2Glob -> TMul(G, S[kSubSInner2Tpc])
    [] k = kSubSOuter2Glob -> TMul(G, S[kSubSOuter2Tpc])
    [] k = kPadInner2SupS  -> S[kSubSInner2SupS]
    [] k = kPadOuter2SupS  -> S[kSubSOuter2SupS]
    [] k = kPadInner2Tpc   -> TMul(S[kSupS2Tpc], S[kPadInner2SupS])
    [] k = kPadOuter2Tpc   -> TMul(S[kSupS2Tpc], S[kPadOuter2SupS])
    [] k = kPadInner2Glob  -> TMul(G, S[kPadInner2Tpc])
    [] k = kPadOuter2Glob  -> TMul(G, S[kPadOuter2Tpc])

StageMatrix(sector, k) ==
  StageMatrixOn(sector, k, tpc2global, [r \in Stages |-> Stored(sector, r)])

\* Normalize without the sign test on the recomputed column.
Normalize_NoSignTest(M) ==
  LET rm == M.rot
      d0 == <<rm[1], rm[4], rm[7]>>
      t0 == <<rm[3], rm[6], rm[9]>>
      dv == VScale(NInv(Mag(d0)), d0)
      tv == VScale(NInv(Mag(t0)), t0)
      cv == Cross(dv, tv)
  IN  [rot |-> <<dv[1], cv[1], tv[1], dv[2], cv[2], tv[2], dv[3], cv[3], tv[3]>>,
       tr |-> M.tr]

\* Lines 357-377: the rotation re-orthonormalised, the translation kept.
Normalize(M) ==
  LET rm == M.rot
      d0 == <<rm[1], rm[4], rm[7]>>
      t0 == <<rm[3], rm[6], rm[9]>>
      nv == <<rm[2], rm[5], rm[8]>>
      dv == VScale(NInv(Mag(d0)), d0)
      tv == VScale(NInv(Mag(t0)), t0)
      c0 == Cross(dv, tv)
      cv == IF NSign(Dot(c0, nv)) < 0 THEN VScale(NNeg(One), c0) ELSE c0
  IN  [rot |-> <<dv[1], cv[1], tv[1], dv[2], cv[2], tv[2], dv[3], cv[3], tv[3]>>,
       tr |-> M.tr]

\* f with x set to v, x in its domain or not.
Put(f, x, v) == [y \in DOMAIN f \cup {x} |-> IF y = x THEN v ELSE f[y]]

\* One run of the inner loop's body, and the step of both loops after it.
SetTpcRotationsStep ==
  /\ csector <= LastSector
  /\ IF csector = 0
     THEN /\ tpc2global' = Normalize(TpcRefSys)
          /\ UNCHANGED sector_rotations
     ELSE /\ sector_rotations' =
               Put(sector_rotations, SlotOf(csector, ck),
                   Normalize(StageMatrix(csector, ck)))
          /\ UNCHANGED tpc2global
  /\ IF ck + 1 < (IF csector = 0 THEN kSupS2Tpc ELSE kTotalTpcSectorRotaions)
     THEN /\ ck' = ck + 1
          /\ UNCHANGED csector
     ELSE /\ csector' = csector + 1
          /\ ck' = kSupS2Tpc
  /\ UNCHANGED <<cal, rowVars, thrVars, logVars, inst, junk, helix>>

CacheNotBuilt ==
  /\ cal = "ideal"
  /\ csector = 0
  /\ ck = kUndefSector
  /\ tpc2global = IdentityT
  /\ sector_rotations = <<>>


---------------------------------------------------------------------------
(* The helix queries x, y, z, cx, cy, cz, at, cat.  Doubles are the exact  *)
(* numbers above together with NaN and the infinities; zero is +0.  The    *)
(* dip angle and the phase are held in degrees, multiples of 30, so that   *)
(* their sines and cosines are exact.                                      *)

FAdd(a, b) ==
  IF finite(a) /\ finite(b) THEN NAdd(a, b)
  ELSE IF a = NaN \/ b = NaN THEN NaN
  ELSE IF finite(a) THEN b
  ELSE IF finite(b) \/ a = b THEN a
  ELSE NaN

FNeg(a) == IF finite(a) THEN NNeg(a) ELSE <<-a[1], 0, 0>>

FSub(a, b) == FAdd(a, FNeg(b))

SignedInf(sgn) == IF sgn < 0 THEN NegInf ELSE PosInf

FSign(a) == IF finite(a) THEN NSign(a) ELSE a[1]

FMul(a, b) ==
  IF finite(a) /\ finite(b) THEN NMul(a, b)
  ELSE IF a = NaN \/ b = NaN \/ a = Zero \/ b = Zero THEN NaN
  ELSE SignedInf(FSign(a) * FSign(b))

FDiv(a, b) ==
  IF a = NaN \/ b = NaN THEN NaN
  ELSE IF finite(a) /\ finite(b)
       THEN IF b # Zero THEN NDiv(a, b)
            ELSE IF a = Zero THEN NaN ELSE SignedInf(NSign(a))
  ELSE IF finite(a) THEN Zero
  ELSE IF finite(b) THEN SignedInf(FSign(a) * (IF b = Zero THEN 1 ELSE NSign(b)))
  ELSE NaN

\* cos and sin of (phase + turn), phase in degrees and turn in radians:
\* exact, and defined, where the helix has not turned.
cosTurned(phase, turn) == CASE turn = Zero -> CosDeg(phase)
sinTurned(phase, turn) == CASE turn = Zero -> SinDeg(phase)

\* StHelix::StHelix(c, dip, phase, o, h): the fields after construction.
StHelixCtor(c, dip, phase, o, h) ==
  [mSingularity |-> (c = Zero),
   mOrigin |-> o, mDipAngle |-> dip, mCurvature |-> c, mPhase |-> phase,
   mH |-> h,
   mCosDipAngle |-> CosDeg(dip), mSinDipAngle |-> SinDeg(dip),
   mCosPhase |-> CosDeg(phase), mSinPhase |-> SinDeg(phase)]

\* s * mH * mCurvature * mCosDipAngle
Turn(hx, s) ==
  FMul(FMul(FMul(s, Int2N(hx.mH)), hx.mCurvature), hx.mCosDipAngle)

\* x(s) with the curved formula whatever the singularity flag.
helix_x_CurvedOnly(hx, s) ==
  FAdd(hx.mOrigin[1],
       FDiv(FSub(cosTurned(hx.mPhase, Turn(hx, s)), hx.mCosPhase),
            hx.mCurvature))

helix_x(hx, s) ==
  IF hx.mSingularity
  THEN FSub(hx.mOrigin[1], FMul(FMul(s, hx.mCosDipAngle), hx.mSinPhase))
  ELSE FAdd(hx.mOrigin[1],
            FDiv(FSub(cosTurned(hx.mPhase, Turn(hx, s)), hx.mCosPhase),
                 hx.mCurvature))

helix_y(hx, s) ==
  IF hx.mSingularity
  THEN FAdd(hx.mOrigin[2], FMul(FMul(s, hx.mCosDipAngle), hx.mCosPhase))
  ELSE FAdd(hx.mOrigin[2],
            FDiv(FSub(sinTurned(hx.mPhase, Turn(hx, s)), hx.mSinPhase),
                 hx.mCurvature))

helix_z(hx, s) == FAdd(hx.mOrigin[3], FMul(s, hx.mSinDipAngle))

helix_cx(hx, s) ==
  IF hx.mSingularity
  THEN FMul(FNeg(hx.mCosDipAngle), hx.mSinPhase)
  ELSE FMul(FMul(FNeg(sinTurned(hx.mPhase, Turn(hx, s))), Int2N(hx.mH)),
            hx.mCosDipAngle)

helix_cy(hx, s) ==
  IF hx.mSingularity
  THEN FMul(hx.mCosDipAngle, hx.mCosPhase)
  ELSE FMul(FMul(cosTurned(hx.mPhase, Turn(hx, s)), Int2N(hx.mH)),
            hx.mCosDipAngle)

helix_cz(hx, s) == hx.mSinDipAngle

helix_at(hx, s) == <<helix_x(hx, s), helix_y(hx, s), helix_z(hx, s)>>

helix_cat(hx, s) == <<helix_cx(hx, s), helix_cy(hx, s), helix_cz(hx, s)>>

---------------------------------------------------------------------------
(* Inputs and bounds.                                                      *)

NThreads    == 2     \* threads calling YToRow with no synchronisation
MaxCalls    == 2     \* calls each of those threads makes
YTwiceMax   == 11    \* y ranges over the half-integers 0 .. YTwiceMax/2

Threads == 1..NThreads
Ys      == { Rat(k, 2) : k \in 0..YTwiceMax }
RaceYs  == { Int2N(1), Int2N(3) }

NoCall == [op |-> "none"]

\* What is kept of a call once another call has followed it.
Brief(call) ==
  IF call.op = "YToRow"
  THEN [op |-> "YToRow", cfg |-> call.cfg, y |-> call.y, row |-> call.row]
  ELSE NoCall

IdleThreads ==
  /\ pc     = [t \in Threads |-> "idle"]
  /\ tcfg   = [t \in Threads |-> "A"]
  /\ ty     = [t \in Threads |-> Zero]
  /\ ti     = [t \in Threads |-> 0]
  /\ tret   = [t \in Threads |-> 0]
  /\ tcalls = [t \in Threads |-> 0]

FreshStatics ==
  /\ Nrows = 0
  /\ Radii = NullPtr
  /\ allocs = 0
  /\ frees = 0
  /\ hazards = {}

---------------------------------------------------------------------------
(* YToRow called by one thread at a time (calls do not overlap).           *)

SeqYToRow(c, y, s) ==
  \E r \in {YToRowCall(Nrows, Radii, c, y)} :
      /\ Nrows' = r.Nrows
      /\ Radii' = r.Radii
      /\ allocs' = IF r.rebuilt THEN 1 ELSE allocs
      /\ frees'  = IF r.rebuilt THEN (IF r.freed THEN 1 ELSE 0) ELSE frees
      /\ prev' = Brief(last)
      /\ last' = [op |-> "YToRow", cfg |-> c, y |-> y, sector |-> s,
                  row |-> r.row, rebuilt |-> r.rebuilt, freed |-> r.freed,
                  before |-> Nrows]
      /\ UNCHANGED <<hazards, thrVars, cnvVars>>

RowInit ==
  /\ FreshStatics
  /\ IdleThreads
  /\ last = NoCall
  /\ prev = NoCall
  /\ inst = "A"
  /\ junk = 0
  /\ helix = NoHelix
  /\ CacheNotBuilt

RowNext == \E c \in Cfgs, y \in Ys, s \in {1, 24} : SeqYToRow(c, y, s)

---------------------------------------------------------------------------
(* YToRow called by several threads with no synchronisation: one action    *)
(* per statement, named by its line in coords.cpp.                         *)

Goto(t, l) == pc' = [pc EXCEPT ![t] = l]

\* A value read from memory the program never wrote.
Garbage == Uninit

\* The loop body's value when Nrows was changed under the running loop: a
\* row index outside the caller's own configuration reads past its tables.
FillValue(c, n, i) ==
  LET rows == IF i = 1 THEN {i, i + 1}
              ELSE IF i = n + 1 THEN {i - 1, i - 2}
              ELSE {i - 1, i}
  IN  IF rows \subseteq 1..padRows(c) THEN BoundaryAt(c, n, i) ELSE Garbage

TableReady ==
  /\ Radii.st = "live"
  /\ Len(Radii.cells) = Nrows + 1
  /\ \A i \in 1..Len(Radii.cells) : Radii.cells[i] # Uninit

Enter(t, c, y) ==
  /\ pc[t] = "idle"
  /\ tcalls[t] < MaxCalls
  /\ Goto(t, "L155")
  /\ tcfg' = [tcfg EXCEPT ![t] = c]
  /\ ty' = [ty EXCEPT ![t] = y]
  /\ tcalls' = [tcalls EXCEPT ![t] = @ + 1]
  /\ UNCHANGED <<rowVars, ti, tret, logVars, cnvVars>>

L155(t) ==
  /\ pc[t] = "L155"
  /\ Goto(t, IF Nrows # padRows(tcfg[t]) THEN "L156" ELSE "L180")
  /\ UNCHANGED <<rowVars, tcfg, ty, ti, tret, tcalls, logVars, cnvVars>>

L156(t) ==
  /\ pc[t] = "L156"
  /\ Nrows' = padRows(tcfg[t])
  /\ allocs' = IF Nrows' # Nrows THEN 0 ELSE allocs
  /\ frees'  = IF Nrows' # Nrows THEN 0 ELSE frees
  /\ Goto(t, "L158")
  /\ UNCHANGED <<Radii, hazards, tcfg, ty, ti, tret, tcalls, logVars, cnvVars>>

L158(t) ==
  /\ pc[t] = "L158"
  /\ IF Radii.st = "null"
     THEN UNCHANGED <<Radii, frees, hazards>>
     ELSE /\ Radii' = [Radii EXCEPT !.st = "freed"]
          /\ frees' = frees + 1
          /\ hazards' = IF Radii.st = "freed"
                        THEN hazards \cup {"double delete"} ELSE hazards
  /\ Goto(t, "L160")
  /\ UNCHANGED <<Nrows, allocs, tcfg, ty, ti, tret, tcalls, logVars, cnvVars>>

L160(t) ==
  /\ pc[t] = "L160"
  /\ Radii' = [st |-> "live", cells |-> [i \in 1..(Nrows + 1) |-> Uninit]]
  /\ allocs' = allocs + 1
  /\ hazards' = IF Radii.st = "live"
                THEN hazards \cup {"leak"} ELSE hazards
  /\ ti' = [ti EXCEPT ![t] = 1]
  /\ Goto(t, "L162")
  /\ UNCHANGED <<Nrows, frees, tcfg, ty, tret, tcalls, logVars, cnvVars>>

\* The loop test and one run of the loop body.
L162(t) ==
  /\ pc[t] = "L162"
  /\ IF ti[t] <= Nrows + 1
     THEN /\ IF Radii.st = "live" /\ ti[t] <= Len(Radii.cells)
             THEN /\ Radii' = [Radii EXCEPT
                        !.cells[ti[t]] = FillValue(tcfg[t], Nrows, ti[t])]
                  /\ UNCHANGED hazards
             ELSE /\ UNCHANGED Radii
                  /\ hazards' = hazards \cup {"write outside the table"}
          /\ ti' = [ti EXCEPT ![t] = @ + 1]
          /\ UNCHANGED pc
     ELSE /\ Goto(t, "L180")
          /\ UNCHANGED <<Radii, hazards, ti>>
  /\ UNCHANGED <<Nrows, allocs, frees, tcfg, ty, tret, tcalls, logVars, cnvVars>>

\* The search; on a table that is not ready it reads indeterminate memory
\* and any row the clamp lets through can come out.
L180(t) ==
  /\ pc[t] = "L180"
  /\ IF TableReady
     THEN /\ tret' = [tret EXCEPT ![t] = RowSearch(Radii.cells, Nrows, ty[t])]
          /\ UNCHANGED hazards
     ELSE /\ \E r \in 1..Nrows : tret' = [tret EXCEPT ![t] = r]
          /\ hazards' = hazards \cup {"search of a table not ready"}
  /\ Goto(t, "idle")
  /\ UNCHANGED <<Nrows, Radii, allocs, frees, tcfg, ty, ti, tcalls, logVars, cnvVars>>

RaceInit ==
  /\ FreshStatics
  /\ IdleThreads
  /\ last = NoCall
  /\ prev = NoCall
  /\ inst = "A"
  /\ junk = 0
  /\ helix = NoHelix
  /\ CacheNotBuilt

RaceNext ==
  \E t \in Threads :
    \/ \E c \in {"A", "C"}, y \in RaceYs : Enter(t, c, y)
    \/ L155(t)
    \/ L156(t)
    \/ L158(t)
    \/ L160(t)
    \/ L162(t)
    \/ L180(t)

---------------------------------------------------------------------------
(* The scalar conversions of one CoordTransform (configuration c).         *)

MinPad   == Rat(500001, 1000000)
Micro    == Rat(1, 1000000)
Mega     == <<1000000, 0, 1>>

\* Constructor, line 44.
timebin_width(c) == NDiv(Mega, frequency(c))

\* "if (row > padRows) row = padRows", lines 82, 98, 112 and 133.
ClampRow(row, c) == IF row > padRows(c) THEN padRows(c) ELSE row

Pitch(row, c) ==
  IF row <= innerPadRows(c) THEN innerSectorPadPitch(c)
                            ELSE outerSectorPadPitch(c)

HalfPads(row, c) == NDiv(Int2N(NumberOfPads(row, c) + 1), Two)

\* XToPad with the inner pitch used for every row.
XToPad_InnerPitch(x, sector, row0, c) ==
  LET row         == ClampRow(row0, c)
      probablePad == NSub(HalfPads(row, c), NDiv(x, innerSectorPadPitch(c)))
  IN  IF NLt(probablePad, MinPad) THEN MinPad ELSE probablePad

\* XToPad without the lower limit on its result.
XToPad_NoLimit(x, sector, row0, c) ==
  LET row == ClampRow(row0, c)
  IN  NSub(HalfPads(row, c), NDiv(x, Pitch(row, c)))

XToPad(x, sector, row0, c) ==
  LET row         == ClampRow(row0, c)
      probablePad == NSub(HalfPads(row, c), NDiv(x, Pitch(row, c)))
  IN  IF NLt(probablePad, MinPad) THEN MinPad ELSE probablePad

PadToX(sector, row0, pad, c) ==
  LET row == ClampRow(row0, c)
  IN  NNeg(NMul(Pitch(row, c), NSub(pad, HalfPads(row, c))))

\* trigT0 + elecT0 + sectT0 (the float round trip of the trigger offset
\* returns the offset).
TZero(sector, row, c) ==
  NAdd(NAdd(trgTimeOffset(c), tZero(c)), PadrowT0(sector, row, c))

HalfIndex(sector, row, c) == IF IsInner(row, c) THEN sector + 24 ELSE sector

TimeToZ(tb, sector, row0, pad, c) ==
  LET row  == ClampRow(row0, c)
      t0   == TZero(sector, row, c)
      tbx  == NAdd(tb, SectorT0offset(HalfIndex(sector, row, c), c))
      time == NAdd(t0, NMul(tbx, timebin_width(c)))
  IN  NMul(NMul(DriftVelocity(sector, c), Micro), time)

ZToTime(z, sector, row0, pad, c) ==
  LET row  == ClampRow(row0, c)
      t0   == TZero(sector, row, c)
      time == NDiv(z, NMul(DriftVelocity(sector, c), Micro))
  IN  NSub(NDiv(NSub(time, t0), timebin_width(c)),
           SectorT0offset(HalfIndex(sector, row, c), c))

ZOffset(row, c) ==
  IF row > innerPadRows(c) THEN z_outer_offset(c) ELSE z_inner_offset(c)

hardware_to_local_sector(a, c) ==
  [position |->
     [x |-> PadToX(a.sector, a.row, a.pad, c),
      y |-> RadialDistanceAtRow(a.row, c),
      z |-> NSub(TimeToZ(a.timeBucket, a.sector, a.row, a.pad, c),
                 ZOffset(a.row, c))],
   sector |-> a.sector, row |-> a.row]

\* local_sector_to_hardware with the drift offset subtracted, as the other
\* direction does, instead of added.
local_sector_to_hardware_OffsetSign(a, n, r, c) ==
  LET derive == a.row < 1 \/ a.row > padRows(c)
      call   == YToRowCall(n, r, c, a.position.y)
      row    == IF derive THEN call.row ELSE a.row
      probablePad == XToPad(a.position.x, a.sector, a.row, c)
      tb     == ZToTime(NSub(a.position.z, ZOffset(row, c)), a.sector, row,
                        probablePad, c)
  IN  [b |-> [sector |-> a.sector, row |-> row, pad |-> probablePad,
              timeBucket |-> tb],
       derived |-> derive,
       Nrows |-> IF derive THEN call.Nrows ELSE n,
       Radii |-> IF derive THEN call.Radii ELSE r]

\* The pad coordinate b, with the statics of YToRow as the call leaves them.
local_sector_to_hardware(a, n, r, c) ==
  LET derive == a.row < 1 \/ a.row > padRows(c)
      call   == YToRowCall(n, r, c, a.position.y)
      row    == IF derive THEN call.row ELSE a.row
      probablePad == XToPad(a.position.x, a.sector, a.row, c)
      tb     == ZToTime(NAdd(a.position.z, ZOffset(row, c)), a.sector, row,
                        probablePad, c)
  IN  [b |-> [sector |-> a.sector, row |-> row, pad |-> probablePad,
              timeBucket |-> tb],
       derived |-> derive,
       Nrows |-> IF derive THEN call.Nrows ELSE n,
       Radii |-> IF derive THEN call.Radii ELSE r]

---------------------------------------------------------------------------
(* Calls of the conversions, each recorded in last.  A call made on the    *)
(* result of the call before it keeps that call in prev.                   *)

MaxRowArg == 4       \* row arguments range over 0 .. MaxRowArg

Sectors  == {1, 24}
RowArgs  == 0..MaxRowArg
PadArgs  == {MinPad, Rat(7, 2)}
XArgs    == {Int2N(-3), Rat(1, 3), Int2N(5)}
TbArgs   == {Zero, Int2N(100)}
ZArgs    == {Int2N(30)}
JunkVals == {-7, 12}

CallPadToX(s, row, pad) ==
  /\ last' = [op |-> "PadToX", sector |-> s, row |-> row, pad |-> pad,
              used |-> ClampRow(row, inst),
              out |-> PadToX(s, row, pad, inst)]
  /\ prev' = NoCall
  /\ UNCHANGED <<rowVars, thrVars, cnvVars>>

CallXToPad(s, row, x, chained) ==
  /\ last' = [op |-> "XToPad", sector |-> s, row |-> row, x |-> x,
              used |-> ClampRow(row, inst),
              npads |-> NumberOfPads(ClampRow(row, inst), inst),
              out |-> XToPad(x, s, row, inst)]
  /\ prev' = IF chained THEN last ELSE NoCall
  /\ UNCHANGED <<rowVars, thrVars, cnvVars>>

CallTimeToZ(s, row, tb, pad) ==
  /\ last' = [op |-> "TimeToZ", sector |-> s, row |-> row, tb |-> tb,
              used |-> ClampRow(row, inst),
              out |-> TimeToZ(tb, s, row, pad, inst)]
  /\ prev' = NoCall
  /\ UNCHANGED <<rowVars, thrVars, cnvVars>>

CallZToTime(s, row, z, pad) ==
  /\ last' = [op |-> "ZToTime", sector |-> s, row |-> row, z |-> z,
              used |-> ClampRow(row, inst),
              out |-> ZToTime(z, s, row, pad, inst)]
  /\ prev' = NoCall
  /\ UNCHANGED <<rowVars, thrVars, cnvVars>>

CallHardwareToLocalSector(a) ==
  /\ last' = [op |-> "hardware_to_local_sector", a |-> a,
              out |-> hardware_to_local_sector(a, inst)]
  /\ prev' = NoCall
  /\ UNCHANGED <<rowVars, thrVars, cnvVars>>

CallLocalSectorToHardware(a, chained) ==
  \E r \in {local_sector_to_hardware(a, Nrows, Radii, inst)} :
    /\ last' = [op |-> "local_sector_to_hardware", a |-> a, out |-> r.b,
                derived |-> r.derived]
    /\ prev' = IF chained THEN last ELSE NoCall
    /\ Nrows' = r.Nrows
    /\ Radii' = r.Radii
    /\ UNCHANGED <<allocs, frees, hazards, thrVars, cnvVars>>

PadCoordinates ==
  { [sector |-> s, row |-> row, pad |-> pad, timeBucket |-> tb] :
      s \in Sectors, row \in 1..padRows(inst), pad \in PadArgs, tb \in TbArgs }

LocalSectorCoordinates ==
  { [position |-> [x |-> x, y |-> y, z |-> Int2N(3)], sector |-> s,
     row |-> row] :
      x \in {Int2N(-1)}, y \in {Int2N(1), Rat(5, 2)}, s \in Sectors,
      row \in RowArgs }

ConvInit ==
  /\ FreshStatics
  /\ IdleThreads
  /\ last = NoCall
  /\ prev = NoCall
  /\ inst \in Cfgs
  /\ junk \in JunkVals
  /\ helix = NoHelix
  /\ CacheNotBuilt

ConvNext ==
  \/ \E s \in Sectors, row \in RowArgs, pad \in PadArgs :
       CallPadToX(s, row, pad)
  \/ \E s \in Sectors, row \in RowArgs, x \in XArgs :
       CallXToPad(s, row, x, FALSE)
  \/ /\ last.op = "PadToX"
     /\ CallXToPad(last.sector, last.row, last.out, TRUE)
  \/ \E s \in Sectors, row \in RowArgs, tb \in TbArgs :
       CallTimeToZ(s, row, tb, Int2N(1))
  \/ \E s \in Sectors, row \in RowArgs, z \in ZArgs :
       CallZToTime(s, row, z, Int2N(1))
  \/ \E a \in PadCoordinates : CallHardwareToLocalSector(a)
  \/ \E a \in LocalSectorCoordinates : CallLocalSectorToHardware(a, FALSE)
  \/ /\ last.op = "hardware_to_local_sector"
     /\ CallLocalSectorToHardware(last.out, TRUE)

---------------------------------------------------------------------------
(* Calls of bad and valid on a helix with any field values.                *)

DipArgs   == {Zero, Rat(-3, 2), HalfPi, Rat(-1575, 1000), Rat(158, 100),
              Rat(159, 100), NaN, NegInf}
CurvArgs  == {Zero, Rat(1, 100), Rat(-1, 100), Int2N(5000), NaN, PosInf}
OriginArgs == {<<Zero, Zero, Zero>>, <<Int2N(1), NaN, Zero>>,
               <<Zero, Int2N(-500), Zero>>, <<Zero, Zero, PosInf>>}
HArgs     == {-1, 1, 0, 2}
WorldArgs == {Int2N(100), Int2N(1000)}

CallBad(world) ==
  /\ last' = [op |-> "bad", world |-> world, out |-> bad(helix, world)]
  /\ UNCHANGED <<prev, rowVars, thrVars, cnvVars>>

CallValid(world) ==
  /\ last' = [op |-> "valid", world |-> world, out |-> valid(helix, world)]
  /\ UNCHANGED <<prev, rowVars, thrVars, cnvVars>>

HelixInit ==
  /\ FreshStatics
  /\ IdleThreads
  /\ last = NoCall
  /\ prev = NoCall
  /\ inst = "A"
  /\ junk = 0
  /\ helix \in [mDipAngle : DipArgs, mCurvature : CurvArgs,
                mOrigin : OriginArgs, mH : HArgs]
  /\ CacheNotBuilt

HelixNext ==
  \/ \E world \in WorldArgs : CallBad(world)
  \/ \E world \in WorldArgs : CallValid(world)

---------------------------------------------------------------------------
(* Queries of one helix.  A curved helix is queried where it has not       *)
(* turned (s = 0); a straight one at every arc length drawn.               *)

TrackCurvArgs  == {Zero, Rat(1, 100)}
TrackDipArgs   == {0, 30, -60}
TrackPhaseArgs == {0, 30, 120, 270}
TrackOrigins   == {<<Zero, Zero, Zero>>, <<Int2N(1), Int2N(-2), Int2N(3)>>}
SArgs          == {Zero, Int2N(2), Int2N(-3)}

Query(name, s, out) ==
  /\ helix.mSingularity \/ s = Zero
  /\ last' = [op |-> name, s |-> s, out |-> out]
  /\ UNCHANGED <<prev, rowVars, thrVars, cnvVars>>

CallX(s)   == Query("x", s, helix_x(helix, s))
CallY(s)   == Query("y", s, helix_y(helix, s))
CallZ(s)   == Query("z", s, helix_z(helix, s))
CallCx(s)  == Query("cx", s, helix_cx(helix, s))
CallCy(s)  == Query("cy", s, helix_cy(helix, s))
CallCz(s)  == Query("cz", s, helix_cz(helix, s))
CallAt(s)  == Query("at", s, helix_at(helix, s))
CallCat(s) == Query("cat", s, helix_cat(helix, s))

TrackInit ==
  /\ FreshStatics
  /\ IdleThreads
  /\ last = NoCall
  /\ prev = NoCall
  /\ inst = "A"
  /\ junk = 0
  /\ helix \in { StHelixCtor(c, dip, phase, o, h) :
                   c \in TrackCurvArgs, dip \in TrackDipArgs,
                   phase \in TrackPhaseArgs, o \in TrackOrigins,
                   h \in {-1, 1} }
  /\ CacheNotBuilt

TrackNext ==
  \E s \in SArgs :
    \/ CallX(s)
    \/ CallY(s)
    \/ CallZ(s)
    \/ CallCx(s)
    \/ CallCy(s)
    \/ CallCz(s)
    \/ CallAt(s)
    \/ CallCat(s)

---------------------------------------------------------------------------
(* Properties of YToRow.                                                   *)

\* C1: threads calling YToRow with no synchronisation build the table as a
\* single writer, once: no thread is about to search a table that is not
\* allocated, freed or partly filled, and one rebuild allocates and frees
\* the table at most once.
C1_SingleWriterOnce ==
  /\ \A t \in Threads : pc[t] = "L180" => TableReady
  /\ allocs <= 1
  /\ frees <= 1
  /\ "double delete" \notin hazards

\* The row a first-ever call through configuration c returns for y.
FirstEverRow(c, y) == YToRowCall(0, NullPtr, c, y).row

\* C2: the row YToRow returns depends on y and the caller's configuration
\* only: it is the row a first-ever call with that configuration returns,
\* whatever calls came before.
C2_DependsOnArgumentsOnly ==
  last.op = "YToRow" => last.row = FirstEverRow(last.cfg, last.y)

SpecBoundary(c, k) ==
  LET N == padRows(c)
      R == RowRadius(c)
  IN  IF k = 0 THEN NDiv(NSub(NMul(Three, R[1]), R[2]), Two)
      ELSE IF k = N THEN NDiv(NSub(NMul(Three, R[N]), R[N - 1]), Two)
      ELSE NDiv(NAdd(R[k], R[k + 1]), Two)

\* C8: YToRow returns the row k with B[k-1] <= y < B[k], 1 below B[0] and N
\* from B[N] on, always within 1..padRows.
C8_RowBetweenBoundaries ==
  last.op = "YToRow" =>
    LET c == last.cfg
        N == padRows(c)
    IN  /\ last.row \in 1..N
        /\ NLt(last.y, SpecBoundary(c, 0)) => last.row = 1
        /\ NLe(SpecBoundary(c, N), last.y) => last.row = N
        /\ \A k \in 1..N :
             (NLe(SpecBoundary(c, k - 1), last.y)
                /\ NLt(last.y, SpecBoundary(c, k))) => last.row = k

---------------------------------------------------------------------------
(* Properties of the scalar conversions.                                   *)

RoundTripDone ==
  /\ last.op = "local_sector_to_hardware"
  /\ prev.op = "hardware_to_local_sector"
  /\ last.a = prev.out

\* C3: local_sector_to_hardware(hardware_to_local_sector(P)) = P for a pad
\* coordinate P with its row in 1..padRows and its pad at least 0.500001.
C3_HardwareRoundTrip ==
  (RoundTripDone /\ InRange(prev.a.row, inst) /\ NLe(MinPad, prev.a.pad))
    => last.out = prev.a

\* The round trip done for an outer row, at the smallest pad.
C3_Witness ==
  /\ RoundTripDone
  /\ prev.a.row > innerPadRows(inst)
  /\ prev.a.pad = MinPad
  /\ prev.a.timeBucket = Int2N(100)
  /\ last.out = prev.a

PadRoundTripDone ==
  /\ last.op = "XToPad"
  /\ prev.op = "PadToX"
  /\ last.x = prev.out /\ last.sector = prev.sector /\ last.row = prev.row

\* C4: XToPad(PadToX(sector, row, pad), sector, row) = pad for a row in
\* 1..padRows and a pad of at least 0.500001, inner and outer rows alike.
C4_PadRoundTrip ==
  (PadRoundTripDone /\ InRange(prev.row, inst) /\ NLe(MinPad, prev.pad))
    => last.out = prev.pad

\* The round trip done for an outer row.
C4_Witness ==
  /\ PadRoundTripDone
  /\ InRange(prev.row, inst)
  /\ prev.row > innerPadRows(inst)
  /\ prev.pad = Rat(7, 2)
  /\ last.out = prev.pad

\* (npads + 1)/2 - x/pitch for the row the call used and the pad count it
\* read.
PadFormula(call) ==
  NSub(NDiv(Int2N(call.npads + 1), Two),
       NDiv(call.x, IF call.used <= innerPadRows(inst)
                    THEN innerSectorPadPitch(inst)
                    ELSE outerSectorPadPitch(inst)))

\* C7: XToPad returns (npads + 1)/2 - x/pitch when that is at least
\* 0.500001 and 0.500001 otherwise; never less than 0.500001.
C7_PadAtLeastMin ==
  last.op = "XToPad" =>
    /\ NLe(MinPad, last.out)
    /\ last.out = IF NLe(MinPad, PadFormula(last)) THEN PadFormula(last)
                  ELSE MinPad

\* A call that hit the lower limit, and was not made on a PadToX result.
C7_Witness ==
  /\ last.op = "XToPad"
  /\ prev = NoCall
  /\ NLt(PadFormula(last), MinPad)
  /\ last.out = MinPad

\* C10: PadToX, XToPad, TimeToZ and ZToTime use a row index within
\* 1..padRows for every per-row lookup, whatever row they are given.
C10_RowIndexInRange ==
  last.op \in {"PadToX", "XToPad", "TimeToZ", "ZToTime"} =>
    last.used \in 1..padRows(inst)

\* C11: when local_sector_to_hardware re-derives the row, the pad, the drift
\* offset, the time bucket and the returned row are all those of the
\* re-derived row.
C11_DerivedRowUsedThroughout ==
  (last.op = "local_sector_to_hardware" /\ last.derived) =>
    LET a   == last.a
        row == last.out.row
        pad == XToPad(a.position.x, a.sector, row, inst)
    IN  /\ row \in 1..padRows(inst)
        /\ last.out.pad = pad
        /\ last.out.timeBucket =
             ZToTime(NAdd(a.position.z, ZOffset(row, inst)), a.sector, row,
                     pad, inst)

---------------------------------------------------------------------------
(* Properties of the helix check.                                          *)

\* The preconditions, one by one.
DipFinite       == finite(helix.mDipAngle)
CurvatureFinite == finite(helix.mCurvature)
OriginValid(w)  == OriginBad(helix.mOrigin, w) = 0
DipInRange      == DipFinite /\ NLe(NAbs(helix.mDipAngle), Rat(158, 100))
DipOffPole(w)   ==
  DipFinite /\ NLe(NInv(w), NAbs(NSub(NAbs(helix.mDipAngle), HalfPi)))
CurvatureInWorld(w) ==
  CurvatureFinite /\ NLe(NAbs(helix.mCurvature), w)
CurvaturePositive == CurvatureFinite /\ NSign(helix.mCurvature) >= 0
Handed          == helix.mH \in {-1, 1}

AllPreconditions(w) ==
  /\ DipFinite /\ CurvatureFinite /\ OriginValid(w) /\ DipInRange
  /\ DipOffPole(w) /\ CurvatureInWorld(w) /\ CurvaturePositive /\ Handed

\* C9: bad returns 0 exactly when every precondition holds, otherwise the
\* code of a precondition that is violated (11, 12, 3 + 100*originCode, 21,
\* 31, 22, 32, 24: no two alike); valid is true exactly when bad returns 0.
C9_BadCodes ==
  /\ last.op = "bad" =>
       LET w == last.world
           code == last.out
       IN  /\ (code = 0) <=> AllPreconditions(w)
           /\ code = 11 => ~DipFinite
           /\ code = 12 => ~CurvatureFinite
           /\ code = 21 => ~DipInRange
           /\ code = 31 => ~DipOffPole(w)
           /\ code = 22 => ~CurvatureInWorld(w)
           /\ code = 32 => ~CurvaturePositive
           /\ code = 24 => ~Handed
           /\ code \notin {0, 11, 12, 21, 31, 22, 32, 24} =>
                /\ ~OriginValid(w)
                /\ code = 3 + 100 * OriginBad(helix.mOrigin, w)
  /\ last.op = "valid" => (last.out <=> AllPreconditions(last.world))

\* bad returned 31: a dip angle inside the band around pi/2 and nothing
\* wrong before it.
C9_Witness ==
  /\ last.op = "bad"
  /\ last.out = 31
  /\ helix.mDipAngle = Rat(-1575, 1000)
  /\ last.world = Int2N(100)

CacheInit ==
  /\ FreshStatics
  /\ IdleThreads
  /\ last = NoCall
  /\ prev = NoCall
  /\ inst = "A"
  /\ junk = 0
  /\ helix = NoHelix
  /\ cal \in Cals
  /\ csector = 0
  /\ ck = kUndefSector
  /\ tpc2global = IdentityT
  /\ sector_rotations = <<>>

CacheNext == SetTpcRotationsStep

---------------------------------------------------------------------------
(* Properties of the transform cache.                                      *)

CacheBuilt == csector > LastSector

Orthonormal(rot) ==
  LET cols == <<<<rot[1], rot[4], rot[7]>>, <<rot[2], rot[5], rot[8]>>,
                <<rot[3], rot[6], rot[9]>>>>
  IN  \A i, j \in 1..3 :
        Dot(cols[i], cols[j]) = IF i = j THEN One ELSE Zero

\* The calibration-supplied alignment transforms are rigid.
RigidCalibration ==
  \A i \in 0..(LastSector - 1) :
    /\ Orthonormal(SuperSectorPosition(cal, i).rot)
    /\ Orthonormal(OuterSectorPosition(cal, i).rot)

\* C6: once the cache is built from rigid alignment transforms, every stored
\* composite stage of every sector is the documented product of the stored
\* stages it is composed of; SubSInner->Glob is
\* (Tpc->Global) * (SupS->Tpc) * (SubSInner->SupS).
C6_CompositesAreProducts ==
  (CacheBuilt /\ RigidCalibration) =>
    \A s \in 1..LastSector :
      LET G == tpc2global
          S(k) == Stored(s, k)
      IN  /\ S(kSupS2Glob)      = TMul(G, S(kSupS2Tpc))
          /\ S(kSubSInner2Tpc)  = TMul(S(kSupS2Tpc), S(kSubSInner2SupS))
          /\ S(kSubSOuter2Tpc)  = TMul(S(kSupS2Tpc), S(kSubSOuter2SupS))
          /\ S(kSubSInner2Glob) = TMul(G, TMul(S(kSupS2Tpc), S(kSubSInner2SupS)))
          /\ S(kSubSOuter2Glob) = TMul(G, TMul(S(kSupS2Tpc), S(kSubSOuter2SupS)))
          /\ S(kPadInner2SupS)  = S(kSubSInner2SupS)
          /\ S(kPadOuter2SupS)  = S(kSubSOuter2SupS)
          /\ S(kPadInner2Tpc)   = TMul(S(kSupS2Tpc), S(kPadInner2SupS))
          /\ S(kPadOuter2Tpc)   = TMul(S(kSupS2Tpc), S(kPadOuter2SupS))
          /\ S(kPadInner2Glob)  = TMul(G, TMul(S(kSupS2Tpc), S(kPadInner2SupS)))
          /\ S(kPadOuter2Glob)  = TMul(G, TMul(S(kSupS2Tpc), S(kPadOuter2SupS)))

\* The cache built from the aligned calibration: every slot stored, and the
\* stored SubSInner->Glob of sector 1 is not the flip.
C6_Witness ==
  /\ CacheBuilt
  /\ cal = "aligned"
  /\ RigidCalibration
  /\ DOMAIN sector_rotations = 0..(kTotalTpcSectorRotaions * LastSector - 1)
  /\ Stored(1, kSubSInner2Glob) # flip_matrix
  /\ Stored(1, kSubSInner2Glob) # Stored(13, kSubSInner2Glob)

---------------------------------------------------------------------------
(* Properties of the helix queries.                                        *)

\* The point of the straight line at arc length s, and its direction, from
\* the parameters the helix was constructed with.
LinePoint(s) ==
  <<NSub(helix.mOrigin[1],
         NMul(NMul(s, CosDeg(helix.mDipAngle)), SinDeg(helix.mPhase))),
    NAdd(helix.mOrigin[2],
         NMul(NMul(s, CosDeg(helix.mDipAngle)), CosDeg(helix.mPhase))),
    NAdd(helix.mOrigin[3], NMul(s, SinDeg(helix.mDipAngle)))>>

LineDirection ==
  <<NNeg(NMul(CosDeg(helix.mDipAngle), SinDeg(helix.mPhase))),
    NMul(CosDeg(helix.mDipAngle), CosDeg(helix.mPhase)),
    SinDeg(helix.mDipAngle)>>

\* C12: a helix constructed with curvature 0 answers every query from the
\* straight line: x, y, z are linear in s, cx, cy, cz do not depend on s,
\* nothing is divided by the curvature, and at(0) is the origin.
C12_StraightLine ==
  (last # NoCall /\ helix.mCurvature = Zero) =>
    /\ last.op = "x"   => last.out = LinePoint(last.s)[1]
    /\ last.op = "y"   => last.out = LinePoint(last.s)[2]
    /\ last.op = "z"   => last.out = LinePoint(last.s)[3]
    /\ last.op = "cx"  => last.out = LineDirection[1]
    /\ last.op = "cy"  => last.out = LineDirection[2]
    /\ last.op = "cz"  => last.out = LineDirection[3]
    /\ last.op = "at"  => /\ last.out = LinePoint(last.s)
                          /\ last.s = Zero => last.out = helix.mOrigin
    /\ last.op = "cat" => last.out = LineDirection

\* at(2) of a straight helix that is neither flat nor along an axis.
C12_Witness ==
  /\ last # NoCall
  /\ last.op = "at"
  /\ last.s = Int2N(2)
  /\ helix.mCurvature = Zero
  /\ helix.mSingularity
  /\ helix.mDipAngle = 30
  /\ helix.mPhase = 30
  /\ \A i \in 1..3 : finite(last.out[i]) /\ last.out[i] # helix.mOrigin[i]

\* A transform no product leaves unchanged.
Probe == [rot |-> IdentityRot, tr |-> <<Int2N(7), Int2N(11), Int2N(13)>>]

CurrentStages == [r \in Stages |-> Stored(csector, r)]

\* The stage about to be computed reads stage r, or tpc2global_: its value
\* changes with what the accessor returns.
ReadsStage(r) ==
  StageMatrixOn(csector, ck, tpc2global, CurrentStages) #
    StageMatrixOn(csector, ck, tpc2global,
                  [CurrentStages EXCEPT ![r] = TMul(@, Probe)])

ReadsTpc2Global ==
  StageMatrixOn(csector, ck, tpc2global, CurrentStages) #
    StageMatrixOn(csector, ck, TMul(tpc2global, Probe), CurrentStages)

vars == <<rowVars, thrVars, logVars, cnvVars>>

RowSpec  == RowInit /\ [][RowNext]_vars
RaceSpec == RaceInit /\ [][RaceNext]_vars
ConvSpec == ConvInit /\ [][ConvNext]_vars
HelixSpec == HelixInit /\ [][HelixNext]_vars
CacheSpec == CacheInit /\ [][CacheNext]_vars
TrackSpec == TrackInit /\ [][TrackNext]_vars

---------------------------------------------------------------------------
(* Rebuilds of the boundary table over a sequence of calls.                *)

\* The table of padRows + 1 boundaries of configuration c.
SpecTable(c) ==
  [st |-> "live", cells |-> [i \in 1..(padRows(c) + 1) |-> SpecBoundary(c, i - 1)]]

\* C15: a call of YToRow whose padRows differs from the recorded row count
\* (the first call ever among them) releases the table there is and builds
\* the padRows + 1 boundaries of its configuration before it searches; a
\* call whose padRows equals the recorded row count leaves count and table
\* as they are.
C15_RebuildOnRowCountChange ==
  [][ LET c == last'.cfg
      IN  /\ last = NoCall => last'.rebuilt
          /\ Nrows # padRows(c) =>
               /\ last'.rebuilt
               /\ last'.freed = (Radii # NullPtr)
               /\ Nrows' = padRows(c)
               /\ Radii' = SpecTable(c)
               /\ last'.row = RowSearch(SpecTable(c).cells, padRows(c), last'.y)
          /\ Nrows = padRows(c) =>
               /\ ~last'.rebuilt
               /\ ~last'.freed
               /\ Nrows' = Nrows
               /\ Radii' = Radii
               /\ last'.row = RowSearch(Radii.cells, Nrows, last'.y) ]_vars

\* A call for two rows after a call for three: the table was released and
\* built again, with three boundaries.
C15_Witness ==
  /\ last.op = "YToRow"
  /\ prev.op = "YToRow"
  /\ padRows(prev.cfg) = 3
  /\ padRows(last.cfg) = 2
  /\ last.before = 3
  /\ last.rebuilt
  /\ last.freed
  /\ Nrows = 2
  /\ Len(Radii.cells) = 3

=============================================================================
